---- MODULE Spec2Model ----
(***************************************************************************)
(* Model of the ldor reverse proxy (src/internal/proxy.go, first variant:  *)
(* the one with the retrier, lines 1-447, together with the configuration  *)
(* of src/internal/config.go lines 116-231 and the wiring of src/main.go). *)
(*                                                                         *)
(* A JSON payload is a record of its top-level fields.  A string value is  *)
(* kept as the raw bytes between its quotes, a sequence of byte groups:    *)
(*   "BS"     one backslash                                                *)
(*   "u003c"  the five bytes u 0 0 3 c      "u003e"  likewise              *)
(*   "<" ">"  the literal angle brackets                                   *)
(*   anything else: a run of ordinary bytes holding no backslash or quote  *)
(* so that the raw bytes BS,u003c are the JSON escape of "<" and the raw   *)
(* bytes BS,BS,u003c are the JSON encoding of the text backslash-u003c.    *)
(* A number is kept in half units (Num(5) is 2.5) so that the truncation   *)
(* of gjson's Int() is part of the model.                                  *)
(***************************************************************************)
EXTENDS Integers, Sequences, FiniteSets, TLC

\* ------------------------------------------------------------------ bounds
MaxMsgs == 2
MaxCeiling == 2
NumReqs == 2
MaxAttempts == 2

\* ------------------------------------------------------- program constants
DefaultMaxTokenCount == 2048
DefaultInstructionModel == <<"gpt-3.5-turbo-instruct">>
DefaultLocale == <<"zh_CN">>
DefaultAPIBaseURL == <<"https://api.openai.com/v1">>
StableCodeModel == "stable-code"
DeepSeekCoderModel == "deepseek-coder"
LocaleMarker == "Respond in the following locale"
StatusOK == 200
StatusBadRequest == 400
StatusUnauthorized == 401
StatusRequestTimeout == 408
StatusInternalServerError == 500

\* ---------------------------------------------------------------- values
Absent == [t |-> "absent", s |-> <<>>, n |-> 0, a |-> <<>>]
Str(raw) == [t |-> "str", s |-> raw, n |-> 0, a |-> <<>>]
Num(halves) == [t |-> "num", s |-> <<>>, n |-> halves, a |-> <<>>]
Arr(elems) == [t |-> "arr", s |-> <<>>, n |-> 0, a |-> elems]
Obj == [t |-> "obj", s |-> <<>>, n |-> 0, a |-> <<>>]
Msg(role, content) == [role |-> role, content |-> content]

Fields ==
  {"model", "function_call", "messages", "intent", "intent_threshold",
   "intent_content", "max_tokens", "extra", "nwo", "prompt", "suffix", "n",
   "stream"}

NilBody == [kind |-> "nil", f |-> [k \in Fields |-> Absent]]

\* ------------------------------------------------- string encode / decode
\* The character an escape sequence BS,c stands for (gjson unescape).
Unesc(c) ==
  CASE c = "u003c" -> "<"
    [] c = "u003e" -> ">"
    [] OTHER -> c

\* A raw string is valid JSON when every backslash starts a known escape.
RECURSIVE ValidRaw(_)
ValidRaw(raw) ==
  IF raw = <<>> THEN TRUE
  ELSE IF Head(raw) = "BS"
       THEN /\ Len(raw) >= 2
            /\ raw[2] \in {"BS", "u003c", "u003e"}
            /\ ValidRaw(Tail(Tail(raw)))
       ELSE ValidRaw(Tail(raw))

\* gjson Result.String() of a string value: the raw bytes unescaped.
RECURSIVE Decode(_)
Decode(raw) ==
  IF raw = <<>> THEN <<>>
  ELSE IF Head(raw) = "BS" /\ Len(raw) >= 2
       THEN <<Unesc(raw[2])>> \o Decode(Tail(Tail(raw)))
       ELSE <<Head(raw)>> \o Decode(Tail(raw))

\* encoding/json Marshal of a Go string: backslash escaped, and "<" ">"
\* written as the escapes BS,u003c and BS,u003e (HTML escaping is on by
\* default).
RECURSIVE Marshal(_)
Marshal(str) ==
  IF str = <<>> THEN <<>>
  ELSE (CASE Head(str) = "BS" -> <<"BS", "BS">>
          [] Head(str) = "<" -> <<"BS", "u003c">>
          [] Head(str) = ">" -> <<"BS", "u003e">>
          [] OTHER -> <<Head(str)>>) \o Marshal(Tail(str))

\* sjson appendStringify: a string with no backslash is written as it is,
\* any other goes through encoding/json.
MustMarshalString(str) == \E i \in 1..Len(str) : str[i] = "BS"
Stringify(str) == IF MustMarshalString(str) THEN Marshal(str) ELSE str

Contains(str, tok) == \E i \in 1..Len(str) : str[i] = tok

\* ------------------------------------------------------------ gjson / sjson
GetBytes(body, key) == IF body.kind = "object" THEN body.f[key] ELSE Absent
Exists(v) == v.t # "absent"
String(v) == IF v.t = "str" THEN Decode(v.s) ELSE <<>>
\* Result.Int(): 0 for a missing value, a number truncated toward zero.
IntOf(v) == IF v.t = "num" THEN v.n \div 2 ELSE 0
Array(v) == IF v.t = "arr" THEN v.a ELSE <<>>

\* sjson.SetBytes on a top-level key.  An object gets the field replaced or
\* appended, empty input becomes a one-field object, and a top-level array
\* refuses a non-numeric key: the error comes back with the input as it was.
SetBytes(body, key, val) ==
  CASE body.kind = "object" ->
         [body |-> [body EXCEPT !.f[key] = val], err |-> "nil"]
    [] body.kind = "nil" ->
         [body |-> [kind |-> "object",
                    f |-> [k \in Fields |-> IF k = key THEN val ELSE Absent]],
          err |-> "nil"]
    [] OTHER -> [body |-> body, err |-> "error"]

\* sjson.SetBytes on the path messages.<idx>.content (idx counted from 1
\* here), for a payload whose messages field is an array holding it.
SetMessageContent(body, idx, val) ==
  LET msgs == body.f["messages"].a
      newMsgs == [msgs EXCEPT ![idx] = Msg(msgs[idx].role, val)]
  IN  [body |-> [body EXCEPT !.f["messages"] = Arr(newMsgs)], err |-> "nil"]

\* sjson.DeleteBytes: a missing path leaves the payload as it is, no error.
DeleteBytes(body, key) ==
  IF body.kind = "object"
  THEN [body |-> [body EXCEPT !.f[key] = Absent], err |-> "nil"]
  ELSE [body |-> body, err |-> "nil"]

\* --------------------------------------------------------- configuration
\* Go map lookup: the zero value "" for a missing key.
MapLookup(m, k) == IF k \in DOMAIN m THEN m[k] ELSE <<>>

setDefaults(sc) ==
  [sc EXCEPT
     !.CodexAPIBaseURL = IF @ = <<>> THEN DefaultAPIBaseURL ELSE @,
     !.CodexMaxTokenCount = IF @ = 0 THEN DefaultMaxTokenCount ELSE @,
     !.CodeInstructionModel = IF @ = <<>> THEN DefaultInstructionModel ELSE @,
     !.ChatAPIBaseURL = IF @ = <<>> THEN DefaultAPIBaseURL ELSE @,
     !.ChatMaxTokenCount = IF @ = 0 THEN DefaultMaxTokenCount ELSE @,
     !.ChatDefaultModel = IF @ = <<>> THEN DefaultInstructionModel ELSE @,
     !.ChatLocale = IF @ = <<>> THEN DefaultLocale ELSE @]

\* ------------------------------------------------------- chat pipeline
setJSONField(body, key, val) ==
  LET r == SetBytes(body, key, val)
  IN  IF r.err # "nil" THEN [body |-> NilBody, err |-> r.err] ELSE r

setModelIfMapped(body, key, modelMap, defaultModel) ==
  LET mapped == MapLookup(modelMap, String(GetBytes(body, key)))
      model == IF mapped = <<>> THEN defaultModel ELSE mapped
  IN  setJSONField(body, key, Str(Stringify(model)))

\* setLocaleIfNeeded writing to the first message instead of the last.
setLocaleFirstMessage(c, body) ==
  IF Exists(GetBytes(body, "function_call"))
  THEN [body |-> body, err |-> "nil"]
  ELSE LET messages == Array(GetBytes(body, "messages"))
       IN  IF Len(messages) = 0
           THEN [body |-> body, err |-> "panic"]
           ELSE LET lastMsg == String(messages[Len(messages)].content)
                    newContent == lastMsg \o <<LocaleMarker, ": ">>
                                          \o c.ChatLocale \o <<".">>
                IN  IF Contains(lastMsg, LocaleMarker)
                    THEN [body |-> body, err |-> "nil"]
                    ELSE SetMessageContent(body, 1, Str(Stringify(newContent)))

\* setLocaleIfNeeded without the check for a marker already present.
setLocaleAlways(c, body) ==
  IF Exists(GetBytes(body, "function_call"))
  THEN [body |-> body, err |-> "nil"]
  ELSE LET messages == Array(GetBytes(body, "messages"))
       IN  IF Len(messages) = 0
           THEN [body |-> body, err |-> "panic"]
           ELSE LET lastMsg == String(messages[Len(messages)].content)
                    newContent == lastMsg \o <<LocaleMarker, ": ">>
                                          \o c.ChatLocale \o <<".">>
                IN  SetMessageContent(body, Len(messages),
                                      Str(Stringify(newContent)))

setLocaleIfNeeded(c, body) ==
  IF Exists(GetBytes(body, "function_call"))
  THEN [body |-> body, err |-> "nil"]
  ELSE LET messages == Array(GetBytes(body, "messages"))
       IN  IF Len(messages) = 0
           THEN [body |-> body, err |-> "panic"]  \* messages[-1]
           ELSE LET lastMsg == String(messages[Len(messages)].content)
                    locale == IF c.ChatLocale = <<>> THEN DefaultLocale
                              ELSE c.ChatLocale
                    newContent == lastMsg \o <<LocaleMarker, ": ">>
                                          \o locale \o <<".">>
                IN  IF Contains(lastMsg, LocaleMarker)
                    THEN [body |-> body, err |-> "nil"]
                    ELSE SetMessageContent(body, Len(messages),
                                           Str(Stringify(newContent)))

RECURSIVE deleteFields(_, _)
deleteFields(body, fields) ==
  IF fields = <<>> THEN [body |-> body, err |-> "nil"]
  ELSE LET r == DeleteBytes(body, Head(fields))
       IN  IF r.err # "nil" THEN [body |-> NilBody, err |-> r.err]
           ELSE deleteFields(r.body, Tail(fields))

setMaxTokensIfExceeded(body, key, maxAllowed) ==
  LET maxTokens == IntOf(GetBytes(body, key))
  IN  IF maxTokens > maxAllowed
      THEN setJSONField(body, key, Num(2 * maxAllowed))
      ELSE [body |-> body, err |-> "nil"]

prepareChatRequestBody(c, body) ==
  LET r1 == setModelIfMapped(body, "model", c.ChatModelMapping,
                             c.ChatDefaultModel)
  IN  IF r1.err # "nil" THEN [body |-> NilBody, err |-> r1.err]
      ELSE
  LET r2 == setLocaleIfNeeded(c, r1.body)
  IN  IF r2.err # "nil" THEN [body |-> NilBody, err |-> r2.err]
      ELSE
  LET r3 == deleteFields(r2.body,
                         <<"intent", "intent_threshold", "intent_content">>)
  IN  IF r3.err # "nil" THEN [body |-> NilBody, err |-> r3.err]
      ELSE
  LET r4 == setMaxTokensIfExceeded(r3.body, "max_tokens", c.ChatMaxTokenCount)
  IN  IF r4.err # "nil" THEN [body |-> NilBody, err |-> r4.err]
      ELSE r4

\* ------------------------------------------------------- code pipeline
\* A replacer that was given the first pair only.
RECURSIVE ReplaceLessThanOnly(_)
ReplaceLessThanOnly(raw) ==
  IF raw = <<>> THEN <<>>
  ELSE IF Len(raw) >= 2 /\ raw[1] = "BS" /\ raw[2] = "u003c"
       THEN <<"<">> \o ReplaceLessThanOnly(Tail(Tail(raw)))
       ELSE <<Head(raw)>> \o ReplaceLessThanOnly(Tail(raw))

\* strings.NewReplacer("\\u003c", "<", "\\u003e", ">").Replace on raw bytes:
\* one pass, left to right, no rescan of what was written.
RECURSIVE Replace(_)
Replace(raw) ==
  IF raw = <<>> THEN <<>>
  ELSE IF Len(raw) >= 2 /\ raw[1] = "BS" /\ raw[2] = "u003c"
       THEN <<"<">> \o Replace(Tail(Tail(raw)))
       ELSE IF Len(raw) >= 2 /\ raw[1] = "BS" /\ raw[2] = "u003e"
            THEN <<">">> \o Replace(Tail(Tail(raw)))
            ELSE <<Head(raw)>> \o Replace(Tail(raw))

\* The replacer runs over the whole serialized payload.  The bytes between
\* two strings (quotes, colons, commas, digits) hold no backslash, so the
\* pass over the payload is the pass over each string of it.
ReplaceValue(v) ==
  CASE v.t = "str" -> Str(Replace(v.s))
    [] v.t = "arr" ->
         Arr([i \in 1..Len(v.a) |->
                Msg(v.a[i].role,
                    IF v.a[i].content.t = "str"
                    THEN Str(Replace(v.a[i].content.s))
                    ELSE v.a[i].content)])
    [] OTHER -> v

ReplaceBody(body) == [body EXCEPT !.f = [k \in Fields |-> ReplaceValue(@[k])]]

prepareChatModelRequest(body, messages) ==
  LET r == SetBytes(body, "messages", messages)
  IN  ReplaceBody(r.body)

FimContent(prompt, suffix) ==
  <<"<", "fim_prefix", ">">> \o prompt \o <<"<", "fim_suffix", ">">>
     \o suffix \o <<"<", "fim_middle", ">">>

prepareStableCodeModelRequest(body) ==
  LET suffix == String(GetBytes(body, "suffix"))
      prompt == String(GetBytes(body, "prompt"))
      content == FimContent(prompt, suffix)
      \* json.Marshal of []map[string]string
      messages == Arr(<<Msg("user", Str(Marshal(content)))>>)
  IN  prepareChatModelRequest(body, messages)

prepareDeepSeekCoderModelRequest(body) ==
  IF IntOf(GetBytes(body, "n")) > 1
  THEN SetBytes(body, "n", Num(2 * 1)).body
  ELSE body

HasPrefix(name, tok) == Len(name) >= 1 /\ name[1] = tok

\* prepareCodeRequestBody that tests for the deepseek-coder prefix first.
prepareCodeRequestBodyDeepSeekFirst(c, body) ==
  LET b1 == DeleteBytes(body, "extra").body
      b2 == DeleteBytes(b1, "nwo").body
      b3 == SetBytes(b2, "model", Str(Stringify(c.CodeInstructionModel))).body
      b4 == IF IntOf(GetBytes(b3, "max_tokens")) > c.CodexMaxTokenCount
            THEN SetBytes(b3, "max_tokens", Num(2 * c.CodexMaxTokenCount)).body
            ELSE b3
  IN  CASE HasPrefix(c.CodeInstructionModel, DeepSeekCoderModel) ->
             prepareDeepSeekCoderModelRequest(b4)
        [] Contains(c.CodeInstructionModel, StableCodeModel) ->
             prepareStableCodeModelRequest(b4)
        [] OTHER -> b4

prepareCodeRequestBody(c, body) ==
  LET b1 == DeleteBytes(body, "extra").body
      b2 == DeleteBytes(b1, "nwo").body
      b3 == SetBytes(b2, "model", Str(Stringify(c.CodeInstructionModel))).body
      b4 == IF IntOf(GetBytes(b3, "max_tokens")) > c.CodexMaxTokenCount
            THEN SetBytes(b3, "max_tokens", Num(2 * c.CodexMaxTokenCount)).body
            ELSE b3
  IN  CASE Contains(c.CodeInstructionModel, StableCodeModel) ->
             prepareStableCodeModelRequest(b4)
        [] HasPrefix(c.CodeInstructionModel, DeepSeekCoderModel) ->
             prepareDeepSeekCoderModelRequest(b4)
        [] OTHER -> b4

\* ================================================================ server
VARIABLES
  cfg,      \* the ServiceConfig, read-only after start-up
  bucket,   \* tokens in the shared rate limiter
  pc,       \* where each inbound request is in its handler chain
  route,    \* "chat" or "code"
  token,    \* the :token path segment
  ctx,      \* inbound request context: "live" or "canceled"
  inBody,   \* the inbound body
  outBody,  \* payload of the outbound request, once built
  outReq,   \* URL and headers of the outbound request, once built
  resp,     \* status and message written to the caller
  did,      \* what has run for the request, in order
  up,       \* the outbound call: attempts, retry events, last error, answer
  relay,    \* Content-Type and body bytes streamed to the caller
  replenished  \* tokens put back into the bucket so far

vars == <<cfg, bucket, pc, route, token, ctx, inBody, outBody, outReq, resp,
          did,
          up, relay, replenished>>

Reqs == 1..NumReqs
Burst == 1

NoResp == [status |-> 0, msg |-> ""]
\* No outbound call yet: no attempt, no retry event, no error, no answer.
NoCall ==
  [attempts |-> 0, retries |-> 0, lastErr |-> "nil", answered |-> FALSE,
   status |-> 0, ctype |-> "", body |-> <<>>, copyErr |-> FALSE,
   bodyRead |-> FALSE, staleSend |-> FALSE]
NoRelay == [ctype |-> "", body |-> <<>>]
UnreadableBody == [kind |-> "unreadable", f |-> [k \in Fields |-> Absent]]

\* ------------------------------------------------------ input domains
ObjectBody(over) ==
  [kind |-> "object",
   f |-> [k \in Fields |-> IF k \in DOMAIN over THEN over[k] ELSE Absent]]
ArrayBody == [kind |-> "array", f |-> [k \in Fields |-> Absent]]

ModelMapBoth ==
  [k \in {<<"gpt-4">>, <<"gpt-3.5">>} |->
     IF k = <<"gpt-4">> THEN <<"up-4">> ELSE <<>>]
ModelMapNone == [k \in {} |-> <<>>]

BaseConfig ==
  [AuthToken |-> "", ChatModelMapping |-> ModelMapNone,
   ChatDefaultModel |-> <<>>, ChatLocale |-> <<>>, ChatMaxTokenCount |-> 0,
   CodexMaxTokenCount |-> 0, CodeInstructionModel |-> <<>>,
   CodexAPIBaseURL |-> <<>>, CodexAPIKey |-> "",
   CodexAPIOrganization |-> "", CodexAPIProject |-> "",
   ChatAPIBaseURL |-> <<>>, ChatAPIKey |-> "",
   ChatAPIOrganization |-> "", ChatAPIProject |-> ""]

\* no content, plain text, text that already carries the marker, and the
\* text backslash-"<" in its escaped form
Contents ==
  {Absent, Str(<<"hi">>), Str(<<"hi", LocaleMarker, ": ", "en", ".">>),
   Str(<<"BS", "BS", "BS", "u003c">>)}
Messages == {Msg("user", c) : c \in Contents}
RECURSIVE SeqsUpTo(_, _)
SeqsUpTo(S, n) ==
  IF n = 0 THEN {<<>>}
  ELSE LET shorter == SeqsUpTo(S, n - 1)
       IN  shorter \cup {Append(q, x) : q \in {p \in shorter : Len(p) = n - 1},
                                         x \in S}
Numbers == {Absent} \cup {Num(h) : h \in 0..(2 * MaxCeiling + 2)}

ChatConfigs ==
  {setDefaults([BaseConfig EXCEPT !.ChatModelMapping = m,
                                  !.ChatDefaultModel = d,
                                  !.ChatLocale = l,
                                  !.ChatMaxTokenCount = c]) :
     m \in {ModelMapBoth, ModelMapNone}, d \in {<<>>, <<"dflt">>},
     l \in {<<>>, <<"en">>}, c \in 1..MaxCeiling}

ChatBodies ==
  {ArrayBody, UnreadableBody} \cup
  {ObjectBody([model |-> m, function_call |-> fc, messages |-> ms,
               intent |-> it, max_tokens |-> mt]) :
     m \in {Absent, Str(<<"gpt-4">>), Str(<<"gpt-3.5">>), Str(<<"other">>)},
     fc \in {Absent, Obj},
     ms \in {Absent} \cup {Arr(q) : q \in SeqsUpTo(Messages, MaxMsgs)},
     it \in {Absent, Str(<<"x">>)},
     mt \in Numbers}

\* ------------------------------------------------------------- actions
NoReq == [url |-> <<>>, headers |-> <<>>]

\* createProxyRequest that sets the organization header in every case.
createProxyRequestAlwaysOrg(targetURL, apiKey, organization, project) ==
  [url |-> targetURL,
   headers |->
     ("Content-Type" :> <<"application/json">>)
     @@ ("Authorization" :> <<"Bearer ", apiKey>>)
     @@ ("OpenAI-Organization" :> <<organization>>)
     @@ (IF project # "" THEN "OpenAI-Project" :> <<project>> ELSE <<>>)]

\* createProxyRequest: a POST to targetURL with the two fixed headers and
\* the two optional ones.  The payload is kept in outBody; the URLs come from
\* the configuration and are taken to parse.
createProxyRequest(targetURL, apiKey, organization, project) ==
  [url |-> targetURL,
   headers |->
     ("Content-Type" :> <<"application/json">>)
     @@ ("Authorization" :> <<"Bearer ", apiKey>>)
     @@ (IF organization # "" THEN "OpenAI-Organization" :> <<organization>>
         ELSE <<>>)
     @@ (IF project # "" THEN "OpenAI-Project" :> <<project>> ELSE <<>>)]

Respond(r, status, msg) ==
  /\ resp' = [resp EXCEPT ![r] = [status |-> status, msg |-> msg]]
  /\ pc' = [pc EXCEPT ![r] = "done"]

PlainRoutes == {"ping", "models"}

\* RegisterGroup with the limiter in front of every route.
RegisterGroupLimitAll(c, rt) ==
  IF rt \in PlainRoutes THEN <<"limit", "plain">>
  ELSE IF c.AuthToken # "" THEN <<"auth", "limit", "handler">>
  ELSE <<"limit", "handler">>

\* RegisterGroup with the limiter in front of AuthMiddleware.
RegisterGroupLimiterFirst(c, rt) ==
  IF rt \in PlainRoutes THEN <<"plain">>
  ELSE IF c.AuthToken # "" THEN <<"limit", "auth", "handler">>
  ELSE <<"limit", "handler">>

\* RegisterGroup: the handler chain of a route.  /_ping and the two models
\* routes have their handler alone; a completion route has the limiter and
\* its handler, behind AuthMiddleware when an auth token is configured.
RegisterGroup(c, rt) ==
  IF rt \in PlainRoutes THEN <<"plain">>
  ELSE IF c.AuthToken # "" THEN <<"auth", "limit", "handler">>
  ELSE <<"limit", "handler">>

\* c.Next(): the handler after cur in the chain.
After(chain, cur) ==
  chain[1 + CHOOSE i \in 1..Len(chain) : chain[i] = cur]

\* A request comes in.  A completion route carries a body and, with an auth
\* token configured, the :token path segment.
Arrive(r, routes, tokens, bodies) ==
  /\ pc[r] = "idle"
  /\ \E rt \in routes, tk \in tokens, b \in bodies :
       /\ route' = [route EXCEPT ![r] = rt]
       /\ token' = [token EXCEPT ![r] =
                      IF cfg.AuthToken # "" /\ rt \notin PlainRoutes THEN tk
                      ELSE ""]
       /\ inBody' = [inBody EXCEPT ![r] =
                       IF rt \in PlainRoutes THEN NilBody ELSE b]
       /\ pc' = [pc EXCEPT ![r] = Head(RegisterGroup(cfg, rt))]
  /\ UNCHANGED <<cfg, bucket, ctx, outBody, outReq, resp, did, up, relay,
                 replenished>>

\* AuthMiddleware that writes the 401 and forgets to abort the chain.
AuthMiddlewareNoAbort(r) ==
  /\ pc[r] = "auth"
  /\ did' = [did EXCEPT ![r] = Append(@, "auth")]
  /\ pc' = [pc EXCEPT ![r] = After(RegisterGroup(cfg, route[r]), "auth")]
  /\ resp' = [resp EXCEPT ![r] =
               IF token[r] # cfg.AuthToken
               THEN [status |-> StatusUnauthorized, msg |-> "Unauthorized"]
               ELSE @]
  /\ UNCHANGED <<cfg, bucket, route, token, ctx, inBody, outBody, outReq, up, relay,
                 replenished>>

AuthMiddleware(r) ==
  /\ pc[r] = "auth"
  /\ did' = [did EXCEPT ![r] = Append(@, "auth")]
  /\ IF token[r] # cfg.AuthToken
     THEN Respond(r, StatusUnauthorized, "Unauthorized")
     ELSE /\ pc' = [pc EXCEPT ![r] =
                      After(RegisterGroup(cfg, route[r]), "auth")]
          /\ UNCHANGED resp
  /\ UNCHANGED <<cfg, bucket, route, token, ctx, inBody, outBody, outReq, up, relay,
                 replenished>>

\* The client goes away or the deadline passes.
Cancel(r) ==
  /\ pc[r] \notin {"idle", "done", "panicked", "limited"}
  /\ ctx[r] = "live"
  /\ ctx' = [ctx EXCEPT ![r] = "canceled"]
  /\ UNCHANGED <<cfg, bucket, pc, route, token, inBody, outBody, outReq, resp, did,
                 up, relay, replenished>>

\* handleChatCompletions up to the hand-over to handleProxyRequest.
handleChatCompletions(r) ==
  /\ pc[r] = "handler"
  /\ route[r] = "chat"
  /\ UNCHANGED <<cfg, bucket, route, token, ctx, inBody, up, relay,
                 replenished>>
  /\ IF ctx[r] # "live"
     THEN /\ Respond(r, StatusRequestTimeout, "Request timeout")
          /\ UNCHANGED <<outBody, outReq, did>>
     ELSE IF inBody[r].kind = "unreadable"
     THEN /\ Respond(r, StatusBadRequest, "Invalid request body")
          /\ did' = [did EXCEPT ![r] = Append(@, "read")]
          /\ UNCHANGED <<outBody, outReq>>
     ELSE LET res == prepareChatRequestBody(cfg, inBody[r])
          IN  /\ did' = [did EXCEPT ![r] = @ \o <<"read", "pipeline">>]
              /\ CASE res.err = "panic" ->
                        /\ pc' = [pc EXCEPT ![r] = "panicked"]
                        /\ UNCHANGED <<outBody, outReq, resp>>
                   [] res.err = "error" ->
                        /\ Respond(r, StatusInternalServerError,
                                   "Failed to prepare chat request body")
                        /\ UNCHANGED <<outBody, outReq>>
                   [] OTHER ->
                        /\ outBody' = [outBody EXCEPT ![r] = res.body]
                        /\ outReq' = [outReq EXCEPT ![r] =
                             createProxyRequest(
                               cfg.ChatAPIBaseURL \o <<"/chat/completions">>,
                               cfg.ChatAPIKey, cfg.ChatAPIOrganization,
                               cfg.ChatAPIProject)]
                        /\ pc' = [pc EXCEPT ![r] = "dispatch"]
                        /\ UNCHANGED resp

\* handleCodeCompletions up to the hand-over to handleProxyRequest.
handleCodeCompletions(r) ==
  /\ pc[r] = "handler"
  /\ route[r] = "code"
  /\ UNCHANGED <<cfg, bucket, route, token, ctx, inBody, up, relay,
                 replenished>>
  /\ IF ctx[r] # "live"
     THEN /\ Respond(r, StatusRequestTimeout, "Request timeout")
          /\ UNCHANGED <<outBody, outReq, did>>
     ELSE IF inBody[r].kind = "unreadable"
     THEN /\ Respond(r, StatusBadRequest, "Invalid request body")
          /\ did' = [did EXCEPT ![r] = Append(@, "read")]
          /\ UNCHANGED <<outBody, outReq>>
     ELSE /\ did' = [did EXCEPT ![r] = @ \o <<"read", "pipeline">>]
          /\ outBody' = [outBody EXCEPT
                           ![r] = prepareCodeRequestBody(cfg, inBody[r])]
          /\ outReq' = [outReq EXCEPT ![r] =
               createProxyRequest(cfg.CodexAPIBaseURL \o <<"/completions">>,
                                  cfg.CodexAPIKey, cfg.CodexAPIOrganization,
                                  cfg.CodexAPIProject)]
          /\ pc' = [pc EXCEPT ![r] = "dispatch"]
          /\ UNCHANGED resp

\* A limiter middleware that lets the request on without taking the token.
LimiterHandlerFuncNoTake(r) ==
  /\ pc[r] = "limit"
  /\ IF bucket > 0
     THEN /\ pc' = [pc EXCEPT ![r] =
                      After(RegisterGroup(cfg, route[r]), "limit")]
          /\ did' = [did EXCEPT ![r] = Append(@, "admit")]
     ELSE /\ pc' = [pc EXCEPT ![r] = "limited"]
          /\ did' = [did EXCEPT ![r] = Append(@, "limited")]
  /\ UNCHANGED <<cfg, bucket, route, token, ctx, inBody, outBody, outReq, resp, up,
                 relay, replenished>>

\* ps.limiter.HandlerFunc(), registered in front of both completion
\* handlers.  The middleware is the rate limiter library's: with a token in
\* the bucket it takes it and lets the request on.  With none the request
\* does not reach the handler: it stays here until a token comes, or the
\* library turns it away and writes its own answer ("limited").
LimiterHandlerFunc(r) ==
  /\ pc[r] = "limit"
  /\ IF bucket > 0
     THEN /\ bucket' = bucket - 1
          /\ pc' = [pc EXCEPT ![r] =
                      After(RegisterGroup(cfg, route[r]), "limit")]
          /\ did' = [did EXCEPT ![r] = Append(@, "admit")]
     ELSE /\ pc' = [pc EXCEPT ![r] = "limited"]
          /\ did' = [did EXCEPT ![r] = Append(@, "limited")]
          /\ UNCHANGED bucket
  /\ UNCHANGED <<cfg, route, token, ctx, inBody, outBody, outReq, resp, up, relay,
                 replenished>>

\* handlePing and getAvailableModels: a fixed 200 answer.
handlePing(r) ==
  /\ pc[r] = "plain"
  /\ route[r] = "ping"
  /\ Respond(r, StatusOK, "ok")
  /\ UNCHANGED <<cfg, bucket, route, token, ctx, inBody, outBody, outReq, did,
                 up, relay, replenished>>

getAvailableModels(r) ==
  /\ pc[r] = "plain"
  /\ route[r] = "models"
  /\ Respond(r, StatusOK, "models")
  /\ UNCHANGED <<cfg, bucket, route, token, ctx, inBody, outBody, outReq, did,
                 up, relay, replenished>>

\* The bucket refills with time, up to its burst.
Replenish ==
  /\ bucket < Burst
  /\ bucket' = bucket + 1
  /\ replenished' = replenished + 1
  /\ UNCHANGED <<cfg, pc, route, token, ctx, inBody, outBody, outReq, resp, did, up,
                 relay>>

\* ---------------------------------------------------- the outbound call
\* What one s.client.Do(req) can meet upstream: an HTTP response of any
\* status, or a failure of the transport.
\* Outcomes of one s.client.Do(req).  read tells whether the transport read
\* the request's body before the call ended: a call that fails while it
\* connects has not touched it, a call that fails later (connection reset,
\* no answer in time) has, and so has every call that was answered.
DialFailure ==
  [kind |-> "error", status |-> 0, ctype |-> "", body |-> <<>>, read |-> FALSE]
TransportFailure ==
  [kind |-> "error", status |-> 0, ctype |-> "", body |-> <<>>, read |-> TRUE]
Failures == {DialFailure, TransportFailure}
Answer(status, ctype, body) ==
  [kind |-> "response", status |-> status, ctype |-> ctype, body |-> body,
   read |-> TRUE]

\* A closure that reports every answer other than 200 as an error.
DoErrStatusAsError(o, c) ==
  IF c = "canceled" THEN "canceled"
  ELSE IF o.kind = "error" \/ o.status # StatusOK THEN "transport"
  ELSE "nil"

\* The error s.client.Do(req) returns to the retrier.  The request carries
\* the inbound context (http.NewRequestWithContext), so once that context is
\* canceled the call ends with context.Canceled whatever the upstream does.
\* A response of any status is no error.
DoErr(o, c) ==
  IF c = "canceled" THEN "canceled"
  ELSE IF o.kind = "error" THEN "transport"
  ELSE "nil"

\* result.TryError() of a retrier that gave up: the retry library's, not in
\* this repository.  It is the failed attempt's error or an error value of
\* the library's own.
TryErrors(lastErr) == {lastErr, "retry"}

\* One attempt count held in the shared retrier for all the calls together.
AttemptsShared(u, r) ==
  LET sum[n \in 0..NumReqs] == IF n = 0 THEN 0 ELSE sum[n - 1] + u[n].attempts
  IN  sum[NumReqs]

\* The attempts the retrier has counted for the call of request r: every
\* s.retrier.TryOnConflict call returns a result of its own.
Attempts(u, r) == u[r].attempts

\* The retrier calls the closure: the first attempt, or the next one after
\* a backoff.  The retrier was built at start-up without the inbound
\* context, so a backoff ends by the clock only.  Every attempt hands the
\* same req to s.client.Do: its body is the one bytes.Reader made in
\* createProxyRequest, which nothing here rewinds, so an attempt after a call
\* that read the body starts with the reader spent (staleSend).  A call
\* started on a canceled context sends nothing.
clientDo(r) ==
  /\ pc[r] \in {"dispatch", "backoff"}
  /\ Attempts(up, r) < MaxAttempts
  /\ up' = [up EXCEPT ![r].attempts = @ + 1,
                      ![r].staleSend = @ \/ (up[r].bodyRead /\ ctx[r] = "live")]
  /\ pc' = [pc EXCEPT ![r] = "inflight"]
  /\ UNCHANGED <<cfg, bucket, route, token, ctx, inBody, outBody, outReq, resp, did,
                 relay, replenished>>

\* handleProxyResponse that hands the upstream body on for every status.
handleProxyResponseLeaky(r, o, n) ==
  /\ resp' = [resp EXCEPT ![r] =
                [status |-> o.status,
                 msg |-> IF o.status # StatusOK THEN "Proxy request failed"
                         ELSE ""]]
  /\ pc' = [pc EXCEPT ![r] = "done"]
  /\ relay' = [relay EXCEPT ![r] = [ctype |-> o.ctype,
                                    body |-> SubSeq(o.body, 1, n)]]

\* handleProxyResponse that answers a broken copy with an error response.
handleProxyResponseErrorOnCopy(r, o, n) ==
  IF o.status # StatusOK
  THEN /\ Respond(r, o.status, "Proxy request failed")
       /\ UNCHANGED relay
  ELSE /\ resp' = [resp EXCEPT ![r] =
                     IF n < Len(o.body)
                     THEN [status |-> StatusInternalServerError,
                           msg |-> "Internal server error"]
                     ELSE [status |-> o.status, msg |-> ""]]
       /\ pc' = [pc EXCEPT ![r] = "done"]
       /\ relay' = [relay EXCEPT ![r] = [ctype |-> o.ctype,
                                         body |-> SubSeq(o.body, 1, n)]]

\* handleProxyResponse: any status other than 200 is answered with that
\* status and the fixed message (respondWithError); a 200 is relayed with
\* its Content-Type and the first n chunks of its body, n short of the whole
\* when io.Copy fails.
handleProxyResponse(r, o, n) ==
  IF o.status # StatusOK
  THEN /\ Respond(r, o.status, "Proxy request failed")
       /\ UNCHANGED relay
  ELSE /\ resp' = [resp EXCEPT ![r] = [status |-> o.status, msg |-> ""]]
       /\ pc' = [pc EXCEPT ![r] = "done"]
       /\ relay' = [relay EXCEPT ![r] = [ctype |-> o.ctype,
                                         body |-> SubSeq(o.body, 1, n)]]

handleProxyError(r, err) ==
  IF err = "canceled"
  THEN Respond(r, StatusRequestTimeout, "Request timeout")
  ELSE Respond(r, StatusInternalServerError, "Internal server error")

\* The call comes back with a response: the retrier reports success and
\* handleProxyRequest passes the response to handleProxyResponse.  Only a
\* call whose body was still unread can be answered: with the reader spent
\* the transport ends the call with a length mismatch before any answer.
AttemptAnswered(r, answers) ==
  /\ pc[r] = "inflight"
  /\ ~up[r].bodyRead
  /\ \E o \in answers :
       /\ DoErr(o, ctx[r]) = "nil"
       /\ \E n \in 0..Len(o.body) :
            /\ n < Len(o.body) => o.status = StatusOK
            /\ up' = [up EXCEPT ![r].answered = TRUE,
                                ![r].status = o.status,
                                ![r].ctype = o.ctype,
                                ![r].body = o.body,
                                ![r].copyErr = (n < Len(o.body))]
            /\ handleProxyResponse(r, o, n)
  /\ UNCHANGED <<cfg, bucket, route, token, ctx, inBody, outBody, outReq, did,
                 replenished>>

\* What the failed call leaves in the record of the outbound call.
Failed(u, o, c) ==
  [u EXCEPT !.lastErr = DoErr(o, c),
            !.answered = (o.kind = "response" /\ c = "live"),
            !.status = IF o.kind = "response" /\ c = "live" THEN o.status
                       ELSE 0,
            !.bodyRead = @ \/ (o.read /\ c = "live")]

\* The call comes back with an error and the retrier goes on: OnRetry is
\* called (one retry event logged) and the backoff starts.
AttemptFailedRetry(r, answers) ==
  /\ pc[r] = "inflight"
  /\ Attempts(up, r) < MaxAttempts
  /\ \E o \in answers \cup Failures :
       /\ DoErr(o, ctx[r]) # "nil"
       /\ up' = [up EXCEPT ![r] = [Failed(@, o, ctx[r]) EXCEPT
                                     !.retries = @ + 1]]
  /\ pc' = [pc EXCEPT ![r] = "backoff"]
  /\ UNCHANGED <<cfg, bucket, route, token, ctx, inBody, outBody, outReq, resp, did,
                 relay, replenished>>

\* The call comes back with an error and the retrier gives up, at the
\* attempt ceiling or, when the library does not retry a canceled call,
\* before it; handleProxyRequest passes the error to handleProxyError.
AttemptFailedGiveUp(r, answers) ==
  /\ pc[r] = "inflight"
  /\ \E o \in answers \cup Failures :
       /\ DoErr(o, ctx[r]) # "nil"
       /\ Attempts(up, r) >= MaxAttempts \/ DoErr(o, ctx[r]) = "canceled"
       /\ up' = [up EXCEPT ![r] = Failed(@, o, ctx[r])]
       /\ \E e \in TryErrors(DoErr(o, ctx[r])) : handleProxyError(r, e)
  /\ UNCHANGED <<cfg, bucket, route, token, ctx, inBody, outBody, outReq, did, relay,
                 replenished>>

Init0 ==
  /\ bucket = Burst
  /\ pc = [r \in Reqs |-> "idle"]
  /\ route = [r \in Reqs |-> "chat"]
  /\ token = [r \in Reqs |-> ""]
  /\ ctx = [r \in Reqs |-> "live"]
  /\ inBody = [r \in Reqs |-> NilBody]
  /\ outBody = [r \in Reqs |-> NilBody]
  /\ outReq = [r \in Reqs |-> NoReq]
  /\ resp = [r \in Reqs |-> NoResp]
  /\ did = [r \in Reqs |-> <<>>]
  /\ up = [r \in Reqs |-> NoCall]
  /\ relay = [r \in Reqs |-> NoRelay]
  /\ replenished = 0

\* ------------------------------------------------------- the chat route
\* One chat request, with every payload and configuration of the domain.
ArriveChat(r) == Arrive(r, {"chat"}, {"secret"}, ChatBodies)

InitChat == Init0 /\ cfg \in ChatConfigs

NextChat ==
  \E r \in {1} :
    \/ ArriveChat(r)
    \/ LimiterHandlerFunc(r)
    \/ handleChatCompletions(r)

SpecChat == InitChat /\ [][NextChat]_vars

\* ------------------------------------------------------- the code route
Prompts ==
  {Absent, Str(<<"a">>), Str(<<"<">>), Str(<<"BS", "u003c", "a">>),
   Str(<<"BS", "BS", "u003c">>)}
Suffixes == {Absent, Str(<<"b">>), Str(<<"BS", "u003e">>)}
Samples == {Absent} \cup {Num(h) : h \in 0..4}

CodeModels ==
  {<<>>, <<"stable-code", "-3b">>, <<"deepseek-coder", "-v2">>,
   <<"deepseek-coder", "-", "stable-code">>}

CodeConfigs ==
  {setDefaults([BaseConfig EXCEPT !.CodeInstructionModel = m,
                                  !.CodexMaxTokenCount = c]) :
     m \in CodeModels, c \in 1..MaxCeiling}

CodeBodies ==
  {UnreadableBody, ArrayBody} \cup
  {ObjectBody([prompt |-> p, suffix |-> sf, n |-> n, max_tokens |-> mt,
               extra |-> ex, nwo |-> ex, messages |-> ms, stream |-> st]) :
     p \in Prompts, sf \in Suffixes, n \in Samples, mt \in Numbers,
     ex \in {Absent, Obj},
     ms \in {Absent, Arr(<<Msg("system", Str(<<"hi">>))>>)},
     st \in {Absent, Str(<<"BS", "u003c">>)}}

ArriveCode(r) == Arrive(r, {"code"}, {"secret"}, CodeBodies)

InitCode == Init0 /\ cfg \in CodeConfigs

NextCode ==
  \E r \in {1} :
    \/ ArriveCode(r)
    \/ LimiterHandlerFunc(r)
    \/ handleCodeCompletions(r)

SpecCode == InitCode /\ [][NextCode]_vars

\* ------------------------------------------------------------ the server
\* Both routes, several requests at once, a small payload domain, from the
\* arrival to the hand-over to the outbound call.
ServerConfigs ==
  {setDefaults([BaseConfig EXCEPT !.AuthToken = "secret",
                                  !.CodeInstructionModel =
                                     <<"stable-code", "-3b">>]),
   setDefaults([BaseConfig EXCEPT !.CodeInstructionModel =
                                     <<"deepseek-coder", "-v2">>])}

ServerBodies ==
  {UnreadableBody,
   ObjectBody([model |-> Str(<<"gpt-4">>), prompt |-> Str(<<"a">>),
               messages |-> Arr(<<Msg("user", Str(<<"hi">>))>>),
               max_tokens |-> Num(2 * DefaultMaxTokenCount + 2)])}

\* Requests are numbered in the order they come in.
ArriveAny(r) ==
  /\ \A q \in Reqs : q < r => pc[q] # "idle"
  /\ Arrive(r, {"chat", "code"}, {"secret", "wrong"}, ServerBodies)

Init == Init0 /\ cfg \in ServerConfigs

Next ==
  \/ \E r \in Reqs :
       \/ ArriveAny(r)
       \/ AuthMiddleware(r)
       \/ LimiterHandlerFunc(r)
       \/ handleChatCompletions(r)
       \/ handleCodeCompletions(r)
       \/ Cancel(r)
  \/ Replenish

Spec == Init /\ [][Next]_vars

\* ----------------------------------------------- one request, end to end
\* One request on either route through the gate-less chain, the outbound
\* call with its retries, and the relay of what the upstream answers.
UpConfigs ==
  {setDefaults([BaseConfig EXCEPT
                  !.CodeInstructionModel = <<"stable-code", "-3b">>,
                  !.CodexAPIBaseURL = <<"https://code.example/v1">>,
                  !.CodexAPIKey = "key-code",
                  !.CodexAPIOrganization = co,
                  !.CodexAPIProject = cp,
                  !.ChatAPIKey = "key-chat",
                  !.ChatAPIOrganization = ho,
                  !.ChatAPIProject = hp]) :
     co \in {"", "org-code"}, cp \in {"", "proj-code"},
     ho \in {"", "org-chat"}, hp \in {"", "proj-chat"}}

UpBodies ==
  {ArrayBody,
   ObjectBody([model |-> Str(<<"gpt-4">>), prompt |-> Str(<<"a">>),
               messages |-> Arr(<<Msg("user", Str(<<"hi">>))>>),
               max_tokens |-> Num(2 * DefaultMaxTokenCount + 2)])}

Statuses == {StatusOK, 201, 404, 503}

Answers ==
  {Answer(st, ct, b) : st \in Statuses, ct \in {"", "text/event-stream"},
                       b \in {<<>>, <<"d1">>, <<"d1", "d2">>}}

ArriveUp(r) == Arrive(r, {"chat", "code"}, {""}, UpBodies)

InitUp == Init0 /\ cfg \in UpConfigs

NextUp ==
  \E r \in {1} :
    \/ ArriveUp(r)
    \/ LimiterHandlerFunc(r)
    \/ handleChatCompletions(r)
    \/ handleCodeCompletions(r)
    \/ Cancel(r)
    \/ clientDo(r)
    \/ AttemptAnswered(r, Answers)
    \/ AttemptFailedRetry(r, Answers)
    \/ AttemptFailedGiveUp(r, Answers)

SpecUp == InitUp /\ [][NextUp]_vars

\* ------------------------------------------- two requests, end to end
\* Two requests side by side on any of the routes, a completion request
\* through admission, its handler and the outbound call made through the
\* one retrier.
PairConfig ==
  setDefaults([BaseConfig EXCEPT !.CodeInstructionModel =
                                    <<"deepseek-coder", "-v2">>])

PairBodies ==
  {ObjectBody([model |-> Str(<<"gpt-4">>), prompt |-> Str(<<"a">>),
               messages |-> Arr(<<Msg("user", Str(<<"hi">>))>>)])}

PairAnswers == {Answer(StatusOK, "text/event-stream", <<"d1">>)}

ArrivePair(r) ==
  Arrive(r, {"chat", "code", "ping", "models"}, {""}, PairBodies)

InitPair == Init0 /\ cfg = PairConfig

NextPair ==
  \/ \E r \in {1, 2} :
       \/ ArrivePair(r)
       \/ LimiterHandlerFunc(r)
       \/ handleChatCompletions(r)
       \/ handleCodeCompletions(r)
       \/ Cancel(r)
       \/ clientDo(r)
       \/ AttemptAnswered(r, PairAnswers)
       \/ AttemptFailedRetry(r, PairAnswers)
       \/ AttemptFailedGiveUp(r, PairAnswers)
       \/ handlePing(r)
       \/ getAvailableModels(r)
  \/ Replenish

SpecPair == InitPair /\ [][NextPair]_vars

\* =============================================================== claims
Forwarded(r) == pc[r] = "dispatch"
Ran(r, what) == \E i \in DOMAIN did[r] : did[r][i] = what
InField(r, key) == GetBytes(inBody[r], key)
OutField(r, key) == GetBytes(outBody[r], key)
LacksMarker(v) == ~Contains(String(v), LocaleMarker)
NeedsLocale(r) ==
  /\ ~Exists(InField(r, "function_call"))
  /\ Len(Array(InField(r, "messages"))) > 0
  /\ LacksMarker(InField(r, "messages").a[Len(InField(r, "messages").a)].content)

\* C1: after the chat pipeline the outbound model is the mapped value when
\* the inbound model is a key of ModelMapping, and the route default
\* otherwise, also when the payload has no model.
C1_ModelMappedOrDefault ==
  \A r \in Reqs :
    (Forwarded(r) /\ route[r] = "chat") =>
      LET m == String(InField(r, "model"))
          isKey == Exists(InField(r, "model")) /\ m \in DOMAIN cfg.ChatModelMapping
      IN  /\ OutField(r, "model").t = "str"
          /\ String(OutField(r, "model")) =
               IF isKey THEN cfg.ChatModelMapping[m] ELSE cfg.ChatDefaultModel

\* C2: a chat payload with no function_call whose last message lacks the
\* locale marker leaves with that message's content followed by the locale
\* sentence of the configured locale, every earlier message as it came.
C2_LocaleAppendedToLast ==
  \A r \in Reqs :
    (Forwarded(r) /\ route[r] = "chat" /\ NeedsLocale(r)) =>
      LET im == InField(r, "messages").a
          om == OutField(r, "messages").a
          last == Len(im)
      IN  /\ OutField(r, "messages").t = "arr"
          /\ Len(om) = last
          /\ om[last].role = im[last].role
          /\ om[last].content.t = "str"
          /\ ValidRaw(om[last].content.s)
          /\ Decode(om[last].content.s) =
               String(im[last].content)
                 \o <<"Respond in the following locale", ": ">>
                 \o cfg.ChatLocale \o <<".">>
          /\ \A i \in 1..(last - 1) : om[i] = im[i]

C2_Witness ==
  \E r \in Reqs :
    /\ Forwarded(r) /\ route[r] = "chat" /\ NeedsLocale(r)
    /\ Len(InField(r, "messages").a) = 2
    /\ InField(r, "messages").a[1] # InField(r, "messages").a[2]
    /\ cfg.ChatLocale = <<"zh_CN">>

\* C3: the chat pipeline run on its own output leaves the messages, and so
\* the last message content, as they are: the locale sentence is appended
\* at most once.
C3_LocaleIdempotent ==
  \A r \in Reqs :
    (Forwarded(r) /\ route[r] = "chat") =>
      LET again == prepareChatRequestBody(cfg, outBody[r])
      IN  /\ again.err = "nil"
          /\ GetBytes(again.body, "messages") = OutField(r, "messages")

C3_Witness ==
  \E r \in Reqs :
    /\ Forwarded(r) /\ route[r] = "chat" /\ NeedsLocale(r)
    /\ OutField(r, "messages") # InField(r, "messages")

\* C4: a chat payload with no function_call and an empty or missing
\* messages array is handled without a fault: locale injection is skipped,
\* the intent fields are stripped, max_tokens is clamped and the request is
\* forwarded.
C4_EmptyMessagesForwarded ==
  \A r \in Reqs :
    (/\ route[r] = "chat" /\ Ran(r, "pipeline")
     /\ inBody[r].kind = "object"
     /\ ~Exists(InField(r, "function_call"))
     /\ Len(Array(InField(r, "messages"))) = 0) =>
      /\ Forwarded(r)
      /\ OutField(r, "messages") = InField(r, "messages")
      /\ ~Exists(OutField(r, "intent"))
      /\ IntOf(OutField(r, "max_tokens")) <= cfg.ChatMaxTokenCount

\* C5: on either route a max_tokens above the route ceiling leaves as the
\* ceiling, one at or below the ceiling leaves unchanged, and a missing one
\* stays missing.
C5_MaxTokensClamped ==
  \A r \in Reqs :
    Forwarded(r) =>
      LET ceiling == IF route[r] = "chat" THEN cfg.ChatMaxTokenCount
                     ELSE cfg.CodexMaxTokenCount
          in == InField(r, "max_tokens")
      IN  IF in.t = "num" /\ in.n > 2 * ceiling
          THEN OutField(r, "max_tokens") = Num(2 * ceiling)
          ELSE OutField(r, "max_tokens") = in

IsFim(c) == Contains(c.CodeInstructionModel, "stable-code")
IsSingleSample(c) ==
  ~IsFim(c) /\ Len(c.CodeInstructionModel) > 0
            /\ c.CodeInstructionModel[1] = "deepseek-coder"

\* C6: under a fill-in-the-middle code model the outbound messages field is
\* one user message whose content is <fim_prefix>, the prompt, <fim_suffix>,
\* the suffix, <fim_middle>, a missing prompt or suffix counting as empty.
C6_FimMessage ==
  \A r \in Reqs :
    (Forwarded(r) /\ route[r] = "code" /\ IsFim(cfg)) =>
      LET ms == OutField(r, "messages")
      IN  /\ ms.t = "arr"
          /\ Len(ms.a) = 1
          /\ ms.a[1].role = "user"
          /\ ms.a[1].content.t = "str"
          /\ ValidRaw(ms.a[1].content.s)
          /\ Decode(ms.a[1].content.s) =
               <<"<", "fim_prefix", ">">> \o String(InField(r, "prompt"))
                 \o <<"<", "fim_suffix", ">">> \o String(InField(r, "suffix"))
                 \o <<"<", "fim_middle", ">">>

HasAngleEscape(raw) ==
  \E i \in 1..(Len(raw) - 1) :
    raw[i] = "BS" /\ raw[i + 1] \in {"u003c", "u003e"}
ValueHasAngleEscape(v) ==
  \/ v.t = "str" /\ HasAngleEscape(v.s)
  \/ v.t = "arr" /\ \E i \in 1..Len(v.a) :
                      v.a[i].content.t = "str" /\ HasAngleEscape(v.a[i].content.s)

\* C7: under a fill-in-the-middle code model no byte sequence backslash-u003c
\* or backslash-u003e is left anywhere in the payload that leaves the pipeline.
C7_NoAngleEscapes ==
  \A r \in Reqs :
    (Forwarded(r) /\ route[r] = "code" /\ IsFim(cfg)) =>
      \A k \in Fields : ~ValueHasAngleEscape(OutField(r, k))

C7_Witness ==
  \E r \in Reqs :
    /\ Forwarded(r) /\ route[r] = "code" /\ IsFim(cfg)
    /\ ValueHasAngleEscape(InField(r, "stream"))
    /\ ValueHasAngleEscape(InField(r, "suffix"))
    /\ OutField(r, "messages").t = "arr"
    /\ Contains(OutField(r, "messages").a[1].content.s, ">")

\* C8: under a single-sample code model an n above 1 leaves as 1, and an n
\* that is missing or at most 1 leaves unchanged.
C8_SampleCountClamped ==
  \A r \in Reqs :
    (Forwarded(r) /\ route[r] = "code" /\ IsSingleSample(cfg)) =>
      LET in == InField(r, "n")
      IN  IF in.t = "num" /\ in.n > 2
          THEN OutField(r, "n") = Num(2)
          ELSE OutField(r, "n") = in

Is2xx(status) == status >= 200 /\ status <= 299

C12_AnsweredNeverRetried ==
  [][\A r \in Reqs :
       up'[r].answered =>
         /\ up'[r].attempts = up[r].attempts
         /\ up'[r].retries = up[r].retries
         /\ pc'[r] = "done"
         /\ resp'[r].status = up'[r].status
         /\ up'[r].lastErr = "nil" =>
              (up'[r].attempts = 1 /\ up'[r].retries = 0)]_vars

C12_Witness ==
  \E r \in Reqs :
    /\ up[r].answered /\ ~Is2xx(up[r].status)
    /\ up[r].attempts = 1 /\ up[r].retries = 0
    /\ pc[r] = "done" /\ resp[r].status = up[r].status

\* C15: an upstream response with a status outside 200..299 reaches the
\* caller as that status with the fixed message "Proxy request failed", and
\* nothing of the upstream body or headers is relayed, whatever the body was.
C15_ErrorStatusGenericMessage ==
  \A r \in Reqs :
    (up[r].answered /\ ~Is2xx(up[r].status)) =>
      /\ resp[r] = [status |-> up[r].status, msg |-> "Proxy request failed"]
      /\ relay[r] = NoRelay

C15_Witness ==
  \E r \in Reqs :
    /\ up[r].answered /\ up[r].status = 503
    /\ up[r].body = <<"d1", "d2">>
    /\ resp[r] = [status |-> 503, msg |-> "Proxy request failed"]

\* C16: an upstream response with a status in 200..299 reaches the caller
\* with that status, the upstream Content-Type and, unless the copy broke
\* off, the whole upstream body in order.
C16_SuccessRelayed ==
  \A r \in Reqs :
    (up[r].answered /\ Is2xx(up[r].status) /\ ~up[r].copyErr) =>
      /\ resp[r] = [status |-> up[r].status, msg |-> ""]
      /\ relay[r] = [ctype |-> up[r].ctype, body |-> up[r].body]

\* C17: on either route a payload on which the model edit or the max_tokens
\* edit signals an error is answered 500 and no outbound call is made.
RequiredEditFails(b) ==
  \/ SetBytes(b, "model", Str(<<>>)).err # "nil"
  \/ SetBytes(b, "max_tokens", Num(0)).err # "nil"

C17_RequiredEditErrorAborts ==
  \A r \in Reqs :
    (Ran(r, "pipeline") /\ RequiredEditFails(inBody[r])) =>
      /\ pc[r] = "done"
      /\ resp[r].status = StatusInternalServerError
      /\ up[r] = NoCall

\* C19: the requests admitted so far are never more than the burst plus the
\* tokens put back so far, for requests of both routes in any interleaving.
Admitted == {r \in Reqs : Ran(r, "admit")}

C20_CancelStopsAttempts ==
  [][\A r \in Reqs :
       ctx[r] = "canceled" =>
         /\ pc[r] = "inflight" => ~up'[r].answered
         /\ (pc[r] = "backoff" /\ up[r].lastErr = "transport") =>
              up'[r].attempts = up[r].attempts]_vars

\* C21: every outbound request carries Content-Type application/json and
\* Authorization "Bearer <key>", the organization header exactly when the
\* organization is set and the project header exactly when the project is
\* set, with the URL, key, organization and project of its own route.
Built(r) == outReq[r].url # <<>>

RouteURL(r) ==
  IF route[r] = "chat" THEN cfg.ChatAPIBaseURL \o <<"/chat/completions">>
  ELSE cfg.CodexAPIBaseURL \o <<"/completions">>
RouteKey(r) == IF route[r] = "chat" THEN cfg.ChatAPIKey ELSE cfg.CodexAPIKey
RouteOrganization(r) ==
  IF route[r] = "chat" THEN cfg.ChatAPIOrganization
  ELSE cfg.CodexAPIOrganization
RouteProject(r) ==
  IF route[r] = "chat" THEN cfg.ChatAPIProject ELSE cfg.CodexAPIProject

C21_OutboundHeaders ==
  \A r \in Reqs :
    Built(r) =>
      LET h == outReq[r].headers
      IN  /\ outReq[r].url = RouteURL(r)
          /\ h["Content-Type"] = <<"application/json">>
          /\ h["Authorization"] = <<"Bearer ", RouteKey(r)>>
          /\ ("OpenAI-Organization" \in DOMAIN h) <=> RouteOrganization(r) # ""
          /\ RouteOrganization(r) # "" =>
               h["OpenAI-Organization"] = <<RouteOrganization(r)>>
          /\ ("OpenAI-Project" \in DOMAIN h) <=> RouteProject(r) # ""
          /\ RouteProject(r) # "" => h["OpenAI-Project"] = <<RouteProject(r)>>
          /\ DOMAIN h \subseteq {"Content-Type", "Authorization",
                                 "OpenAI-Organization", "OpenAI-Project"}

C21_Witness ==
  \E r \in Reqs :
    /\ Built(r) /\ route[r] = "code" /\ up[r].attempts >= 1
    /\ cfg.CodexAPIOrganization = "" /\ cfg.CodexAPIProject # ""
    /\ cfg.ChatAPIOrganization # "" /\ cfg.ChatAPIProject = ""

\* C22: for a code payload that is a JSON object, the configured model name
\* picks one branch: a name containing "stable-code" gets the
\* fill-in-the-middle message and n as it came, even when the name starts
\* with "deepseek-coder"; otherwise a name starting with "deepseek-coder"
\* gets n of 2 or more set to 1, a smaller or missing n and the messages as
\* they came; any other name leaves every field but extra, nwo, model and
\* max_tokens as it came.
IsFimMessages(ms) ==
  /\ ms.t = "arr"
  /\ Len(ms.a) = 1
  /\ ms.a[1].role = "user"
  /\ ms.a[1].content.t = "str"
  /\ Len(ms.a[1].content.s) >= 3
  /\ SubSeq(ms.a[1].content.s, 1, 3) = <<"<", "fim_prefix", ">">>

C22_FamilyDispatch ==
  \A r \in Reqs :
    (Forwarded(r) /\ route[r] = "code" /\ inBody[r].kind = "object") =>
      LET name == cfg.CodeInstructionModel
          nIn == InField(r, "n")
          nOut == OutField(r, "n")
      IN  CASE Contains(name, "stable-code") ->
                 /\ IsFimMessages(OutField(r, "messages"))
                 /\ nOut = nIn
            [] Len(name) > 0 /\ name[1] = "deepseek-coder" ->
                 /\ OutField(r, "messages") = InField(r, "messages")
                 /\ (nIn.t = "num" /\ nIn.n >= 4) => nOut = Num(2)
                 /\ ~(nIn.t = "num" /\ nIn.n > 2) => nOut = nIn
            [] OTHER ->
                 \A k \in Fields \ {"extra", "nwo", "model", "max_tokens"} :
                   OutField(r, k) = InField(r, k)

C22_Witness ==
  \E r \in Reqs :
    /\ Forwarded(r) /\ route[r] = "code" /\ inBody[r].kind = "object"
    /\ cfg.CodeInstructionModel = <<"deepseek-coder", "-", "stable-code">>
    /\ InField(r, "n") = Num(4) /\ OutField(r, "n") = Num(4)
    /\ IsFimMessages(OutField(r, "messages"))

\* C23: under a fill-in-the-middle model, for a code payload that is a valid
\* JSON object, every outbound field other than extra, nwo, model,
\* max_tokens and messages is valid JSON and decodes to what the inbound
\* field decodes to.
ValidValue(v) == v.t = "str" => ValidRaw(v.s)
DecodeValue(v) == IF v.t = "str" THEN Str(Decode(v.s)) ELSE v
Untouched == Fields \ {"extra", "nwo", "model", "max_tokens", "messages"}

C23_UntouchedFieldsKept ==
  \A r \in Reqs :
    (Forwarded(r) /\ route[r] = "code" /\ IsFim(cfg)
       /\ inBody[r].kind = "object"
       /\ \A k \in Fields : ValidValue(InField(r, k))) =>
      \A k \in Untouched :
        /\ ValidValue(OutField(r, k))
        /\ DecodeValue(OutField(r, k)) = DecodeValue(InField(r, k))

\* C24: with two requests going through the one retrier, a step of one
\* request's outbound call changes nothing of the other's; each request's
\* retry events count its own failed attempts, a request that is given up
\* at transport level has had all its attempts, and a request is answered
\* 408 only when its own context was canceled.
OwnRetries(r) ==
  IF up[r].attempts = 0 THEN 0
  ELSE IF pc[r] = "backoff" THEN up[r].attempts
  ELSE up[r].attempts - 1

IsPrefix(p, q) == Len(p) <= Len(q) /\ SubSeq(q, 1, Len(p)) = p

C25_CopyFailureOnlyLogged ==
  \A r \in Reqs :
    up[r].copyErr =>
      /\ pc[r] = "done"
      /\ resp[r] = [status |-> up[r].status, msg |-> ""]
      /\ relay[r].ctype = up[r].ctype
      /\ IsPrefix(relay[r].body, up[r].body)

C25_Witness ==
  \E r \in Reqs :
    /\ up[r].copyErr /\ up[r].body = <<"d1", "d2">>
    /\ relay[r].body = <<"d1">> /\ resp[r].status = StatusOK

\* C26: the tokens taken from the bucket are as many as the completion
\* requests admitted; a request with an outbound call is a chat or code
\* request that was admitted exactly once; a /_ping or models request is
\* never admitted, held or turned away by the limiter.
TokensTaken == Burst + replenished - bucket
Count(seq, x) == Cardinality({i \in DOMAIN seq : seq[i] = x})

C26_TokensForCompletionsOnly ==
  /\ TokensTaken = Cardinality(Admitted)
  /\ \A r \in Reqs :
       /\ Ran(r, "admit") => route[r] \in {"chat", "code"}
       /\ up[r].attempts >= 1 =>
            (route[r] \in {"chat", "code"} /\ Count(did[r], "admit") = 1)
       /\ (pc[r] # "idle" /\ route[r] \in PlainRoutes) =>
            (pc[r] \in {"plain", "done"} /\ did[r] = <<>>)

C26_Witness ==
  \E r, q \in Reqs :
    /\ route[r] = "ping" /\ pc[r] = "done" /\ resp[r].status = StatusOK
    /\ route[q] = "code" /\ up[q].attempts >= 1
    /\ bucket = 0 /\ replenished = 0

\* ---------------------------------------------------------------- C28
\* C28: every attempt of an outbound call sends the complete payload: no
\* attempt is started on a request whose body an earlier failed attempt has
\* already read.
C28_RetrySendsWholeBody ==
  \A r \in Reqs : ~up[r].staleSend

\* ---------------------------------------------------------------- C29
\* C29: with an auth token configured, the token check comes before the
\* limiter: a request with a wrong token never gets to the limiter, neither
\* to take a token nor to be turned away by it, so every token taken went
\* to a request with the right token.
Authorized == {r \in Reqs : pc[r] # "idle" /\ token[r] = cfg.AuthToken}

C29_AuthBeforeAdmission ==
  cfg.AuthToken # "" =>
    /\ \A r \in Reqs :
         (Ran(r, "admit") \/ Ran(r, "limited")) =>
           (r \in Authorized /\ did[r][1] = "auth")
    /\ TokensTaken = Cardinality(Admitted \cap Authorized)

C29_Witness ==
  \E r, q \in Reqs :
    /\ r < q /\ cfg.AuthToken # ""
    /\ token[r] # cfg.AuthToken /\ resp[r].status = StatusUnauthorized
    /\ q \in Admitted /\ replenished = 0

\* ---------------------------------------------------------------- C30
\* C30: a completion request gets one answer and no more: once an answer is
\* written, the answer, the record of the outbound call and the relayed
\* stream stay as they are; a request is done exactly when its one answer is
\* written; and the outbound call starts only for a request without an
\* answer whose body was read and on which no required edit failed.
C30_Step(r) ==
  /\ resp[r] # NoResp =>
       (resp'[r] = resp[r] /\ up'[r] = up[r] /\ relay'[r] = relay[r])
  /\ (pc[r] # "done" /\ pc'[r] = "done") =>
       (resp[r] = NoResp /\ resp'[r] # NoResp)
  /\ (up[r] = NoCall /\ up'[r] # NoCall) =>
       /\ resp[r] = NoResp
       /\ Ran(r, "read") /\ Ran(r, "pipeline")
       /\ inBody[r].kind # "unreadable"
       /\ ~RequiredEditFails(inBody[r])

C30_OneTerminalOutcome == [][\A r \in Reqs : C30_Step(r)]_vars

=============================================================================
